---------------------------- MODULE Spec2Model ----------------------------
(***************************************************************************)
(* A model of scraper.py: the pagination crawl (collect_minutes_urls), the *)
(* text cleaner (clean_text), the two extractors, the per-item fetch with  *)
(* its 404 fallback (fetch_minutes_text) and the orchestrating loop        *)
(* (scrape).                                                               *)
(*                                                                         *)
(* Python strings are TLA+ strings, read as sequences of characters with   *)
(* Len, SubSeq and \o.  The alphabet is ASCII; the two typographic quotes  *)
(* U+201C and U+201D of the patterns are written LDQ and RDQ.              *)
(***************************************************************************)
EXTENDS Integers, Sequences, FiniteSets, TLC

----------------------------------------------------------------------------
(* Characters and character classes of Python's re module.                 *)

Ch(s, i) == IF 1 <= i /\ i <= Len(s) THEN SubSeq(s, i, i) ELSE ""

Uppers == "ABCDEFGHIJKLMNOPQRSTUVWXYZ"
Lowers == "abcdefghijklmnopqrstuvwxyz"
Digits == "0123456789"

CharsOf(s) == {SubSeq(s, k, k) : k \in 1..Len(s)}

UpperSet == CharsOf(Uppers)
LowerSet == CharsOf(Lowers)
DigitSet == CharsOf(Digits)
\* [a-zA-Z]
LetterSet == UpperSet \cup LowerSet
\* \w
WordSet == LetterSet \cup DigitSet \cup {"_"}
\* \s, and the characters str.strip() removes
Whitespace == {" ", "\t", "\n", "\r", "\f"}

\* the characters standing for U+201C and U+201D
LDQ == "{"
RDQ == "}"

LowerMap[c \in UpperSet] ==
    LET k == CHOOSE n \in 1..Len(Uppers) : SubSeq(Uppers, n, n) = c
    IN SubSeq(Lowers, k, k)

LowerCh(c) == IF c \in UpperSet THEN LowerMap[c] ELSE c

\* Below, CHOOSE result \in {e(x) : x \in {d}} : TRUE is e(x) with x the value
\* of d, worked out once, as an assignment to a local variable does.

\* the least element of a non-empty set of positions
Min(S) == CHOOSE x \in S : \A y \in S : x <= y
Max(S) == CHOOSE x \in S : \A y \in S : x >= y

\* the literal w stands at position i of s
LitAt(s, i, w) ==
    /\ i >= 1
    /\ i + Len(w) - 1 <= Len(s)
    /\ SubSeq(s, i, i + Len(w) - 1) = w

\* the same under re.IGNORECASE; w is given in lower case
LitAtI(s, i, w) ==
    /\ i >= 1
    /\ i + Len(w) - 1 <= Len(s)
    /\ \A k \in 1..Len(w) : LowerCh(Ch(s, i + k - 1)) = Ch(w, k)

\* Every matcher below answers, for a pattern and a position i of s, the
\* position just after the match re finds starting at i, or 0 when the
\* pattern does not match at i.

\* a literal, then the rest from e on
AfterLit(s, i, w) == IF LitAt(s, i, w) THEN i + Len(w) ELSE 0
AfterLitI(s, i, w) == IF LitAtI(s, i, w) THEN i + Len(w) ELSE 0

\* a greedy run C*: the first position from j on whose character is not in C
Skip(s, j, C) ==
    IF j < 1 \/ Ch(s, j) \notin C THEN j
    ELSE LET out == {k \in j..Len(s) : Ch(s, k) \notin C}
         IN IF out = {} THEN Max({j, Len(s) + 1}) ELSE Min(out)

\* a greedy run [^C]*: the first position from j on whose character is in C
SkipNot(s, j, C) ==
    IF j < 1 \/ Ch(s, j) \in C THEN j
    ELSE LET in == {k \in j..Len(s) : Ch(s, k) \in C}
         IN IF in = {} THEN Max({j, Len(s) + 1}) ELSE Min(in)

\* C{n}: exactly n characters of C from j on
Exactly(s, j, C, n) ==
    IF j >= 1 /\ j + n - 1 <= Len(s) /\ \A k \in j..(j + n - 1) : Ch(s, k) \in C
    THEN j + n ELSE 0

\* C+ followed by something that is not in C: the whole run, at least one
Plus(s, j, C) == LET e == Skip(s, j, C) IN IF j >= 1 /\ e > j THEN e ELSE 0

\* .*?w : the nearest w from j on with no line break before it
DotLazy(s, j, w) ==
    IF j < 1 THEN 0
    ELSE LET at == {k \in j..Len(s) : LitAt(s, k, w)}
         IN IF at = {} THEN 0
            ELSE IF \E m \in j..(Min(at) - 1) : Ch(s, m) = "\n" THEN 0
            ELSE Min(at) + Len(w)

\* the first alternative of alts (in order) that stands at j
RECURSIVE AltI(_, _, _)
AltI(s, j, alts) ==
    IF alts = <<>> THEN 0
    ELSE IF LitAtI(s, j, Head(alts)) THEN j + Len(Head(alts))
    ELSE AltI(s, j, Tail(alts))

\* the first positive entry of es (the first alternative that succeeds)
RECURSIVE FirstMatch(_)
FirstMatch(es) ==
    IF es = <<>> THEN 0
    ELSE IF Head(es) > 0 THEN Head(es)
    ELSE FirstMatch(Tail(es))

\* str.strip()
strip(s) ==
    LET keep == {k \in 1..Len(s) : Ch(s, k) \notin Whitespace}
    IN IF keep = {} THEN "" ELSE SubSeq(s, Min(keep), Max(keep))

----------------------------------------------------------------------------
(* clean_text: one matcher per re.sub of the pipeline, in its order.       *)

\* <[^>]+>
M_tag(s, i) ==
    IF Ch(s, i) = "<" /\ i + 1 <= Len(s) /\ Ch(s, i + 1) # ">"
    THEN LET k == SkipNot(s, i + 1, {">"})
         IN IF k <= Len(s) THEN k + 1 ELSE 0
    ELSE 0

\* \s+
M_ws(s, i) == Plus(s, i, Whitespace)

\* \(The sitting (?:was suspended|opened|closed|ended) at.*?\)   IGNORECASE
M_sitting(s, i) ==
    LET a == AfterLitI(s, i, "(the sitting ")
        b == AltI(s, a, <<"was suspended", "opened", "closed", "ended">>)
        c == AfterLitI(s, b, " at")
    IN IF a > 0 /\ b > 0 /\ c > 0 THEN DotLazy(s, c, ")") ELSE 0

\* \(Voting time ended at.*?\)   IGNORECASE
M_voting(s, i) ==
    LET a == AfterLitI(s, i, "(voting time ended at")
    IN IF a > 0 THEN DotLazy(s, a, ")") ELSE 0

\* \((?:debat|stemming|vraag|interventie)\)   IGNORECASE
M_tagword(s, i) ==
    LET a == AfterLit(s, i, "(")
        b == AltI(s, a, <<"debat", "stemming", "vraag", "interventie">>)
    IN IF a > 0 /\ b > 0 THEN AfterLit(s, b, ")") ELSE 0

\* \(Het woord wordt gevoerd door:.*?\)   IGNORECASE
M_speaker(s, i) ==
    LET a == AfterLitI(s, i, "(het woord wordt gevoerd door:")
    IN IF a > 0 THEN DotLazy(s, a, ")") ELSE 0

\* (\(|\[)\s*(?:(?:[a-zA-Z]{2,3})\s*(?:|\s|))?\s*(?:artikel|rule|punt|item)
\* \s*\d+(?:,\s*lid\s*\d+)?\s*(?:\s+\w+)?\s*(\)|\])   IGNORECASE
\* Nothing between the brackets can match a closing bracket, so a match
\* ends at the nearest one; the parts are tried in the order re tries them.
ArticleKey(s, q) == AltI(s, q, <<"artikel", "rule", "punt", "item">>)

\* \s*\d+(?:,\s*lid\s*\d+)?\s*(?:\s+\w+)?\s*(\)|\]) from k on
ArticleTail(s, k) ==
    LET d == Plus(s, Skip(s, k, Whitespace), DigitSet)
        l1 == AfterLit(s, d, ",")
        l2 == AfterLitI(s, Skip(s, l1, Whitespace), "lid")
        l3 == Plus(s, Skip(s, l2, Whitespace), DigitSet)
        e == IF l1 > 0 THEN (IF l2 > 0 THEN l3 ELSE 0) ELSE d
        t == Skip(s, e, Whitespace)
        w == Plus(s, t, WordSet)
        u == Skip(s, w, Whitespace)
    IN IF k = 0 \/ d = 0 \/ e = 0 THEN 0
       ELSE IF Ch(s, t) \in {")", "]"} THEN t + 1
       ELSE IF t > e /\ w > 0 /\ Ch(s, u) \in {")", "]"} THEN u + 1
       ELSE 0

M_article(s, i) ==
    IF Ch(s, i) \in {"(", "["}
    THEN LET p == Skip(s, i + 1, Whitespace)
             l3 == Exactly(s, p, LetterSet, 3)
             l2 == Exactly(s, p, LetterSet, 2)
         IN FirstMatch(<<
                IF l3 > 0 THEN ArticleTail(s, ArticleKey(s, Skip(s, l3, Whitespace))) ELSE 0,
                IF l2 > 0 THEN ArticleTail(s, ArticleKey(s, Skip(s, l2, Whitespace))) ELSE 0,
                ArticleTail(s, ArticleKey(s, p)) >>)
    ELSE 0

\* \[(COM|A)\d+-\d+(/\d+)?\]
M_report(s, i) ==
    LET a == AfterLit(s, i, "[")
        b == FirstMatch(<<AfterLit(s, a, "COM"), AfterLit(s, a, "A")>>)
        c == Plus(s, b, DigitSet)
        d == AfterLit(s, c, "-")
        e == Plus(s, d, DigitSet)
        f == Plus(s, AfterLit(s, e, "/"), DigitSet)
    IN IF a = 0 \/ b = 0 \/ c = 0 \/ d = 0 \/ e = 0 THEN 0
       ELSE FirstMatch(<<IF f > 0 THEN AfterLit(s, f, "]") ELSE 0,
                         AfterLit(s, e, "]")>>)

\* [^\s]+?\) from j on: the nearest ")" after at least one character, none
\* of the characters before it a whitespace
UrlBody(s, j) ==
    IF j >= 1 /\ j <= Len(s) /\ Ch(s, j) \notin Whitespace
    THEN LET k == SkipNot(s, j + 1, Whitespace \cup {")"})
         IN IF Ch(s, k) = ")" THEN k + 1 ELSE 0
    ELSE 0

\* (?:http|https):\/\/[^\s]+?\) from j on
UrlFrom(s, j) ==
    FirstMatch(<<UrlBody(s, AfterLit(s, j, "http://")),
                 UrlBody(s, AfterLit(s, j, "https://"))>>)

\* \(?(?:http|https):\/\/[^\s]+?\)
M_url(s, i) ==
    FirstMatch(<<IF Ch(s, i) = "(" THEN UrlFrom(s, i + 1) ELSE 0,
                 UrlFrom(s, i)>>)

\* \[\s*\d{4}/\d{4}\(<kind>\)\]
ProcCode(s, i, kind) ==
    LET a == AfterLit(s, i, "[")
        b == Exactly(s, Skip(s, a, Whitespace), DigitSet, 4)
        c == AfterLit(s, b, "/")
        d == Exactly(s, c, DigitSet, 4)
    IN IF a = 0 \/ b = 0 \/ c = 0 \/ d = 0 THEN 0
       ELSE AfterLit(s, d, "(" \o kind \o ")]")

M_cod(s, i) == ProcCode(s, i, "COD")
M_ini(s, i) == ProcCode(s, i, "INI")
M_rsp(s, i) == ProcCode(s, i, "RSP")
M_imm(s, i) == ProcCode(s, i, "IMM")
M_nle(s, i) == ProcCode(s, i, "NLE")

\* \[\s*\d{5}/\d{4}\s*-\s*C\d+-\d+/\d+\s*-\s*\d{4}/\d{4}\(NLE\)\]
M_nle_long(s, i) ==
    LET a == AfterLit(s, i, "[")
        b == Exactly(s, Skip(s, a, Whitespace), DigitSet, 5)
        c == Exactly(s, AfterLit(s, b, "/"), DigitSet, 4)
        d == AfterLit(s, Skip(s, c, Whitespace), "-")
        e == AfterLit(s, Skip(s, d, Whitespace), "C")
        f == Plus(s, e, DigitSet)
        g == Plus(s, AfterLit(s, f, "-"), DigitSet)
        h == Plus(s, AfterLit(s, g, "/"), DigitSet)
        j == AfterLit(s, Skip(s, h, Whitespace), "-")
        k == Exactly(s, Skip(s, j, Whitespace), DigitSet, 4)
        l == Exactly(s, AfterLit(s, k, "/"), DigitSet, 4)
    IN IF \E x \in {a, b, c, d, e, f, g, h, j, k, l} : x = 0 THEN 0
       ELSE AfterLit(s, l, "(NLE)]")

\* \(“Stemmingsuitslagen”, punt \d+\)
M_results(s, i) ==
    LET a == AfterLit(s, i, "(" \o LDQ \o "Stemmingsuitslagen" \o RDQ \o ", punt ")
        b == Plus(s, a, DigitSet)
    IN IF a > 0 /\ b > 0 THEN AfterLit(s, b, ")") ELSE 0

\* \(de Voorzitter(?: maakt na de toespraak van.*?| weigert in te gaan op.*?
\* | stemt toe| herinnert eraan dat de gedragsregels moeten worden nageleefd
\* | neemt er akte van|)\)
M_chair(s, i) ==
    LET a == AfterLit(s, i, "(de Voorzitter")
        b1 == AfterLit(s, a, " maakt na de toespraak van")
        b2 == AfterLit(s, a, " weigert in te gaan op")
        b3 == AfterLit(s, a, " stemt toe")
        b4 == AfterLit(s, a, " herinnert eraan dat de gedragsregels moeten worden nageleefd")
        b5 == AfterLit(s, a, " neemt er akte van")
    IN IF a = 0 THEN 0
       ELSE FirstMatch(<<IF b1 > 0 THEN DotLazy(s, b1, ")") ELSE 0,
                         IF b2 > 0 THEN DotLazy(s, b2, ")") ELSE 0,
                         AfterLit(s, b3, ")"),
                         AfterLit(s, b4, ")"),
                         AfterLit(s, b5, ")"),
                         AfterLit(s, a, ")")>>)

\* \(zie bijlage.*?\)   IGNORECASE
M_annex(s, i) ==
    LET a == AfterLitI(s, i, "(zie bijlage")
    IN IF a > 0 THEN DotLazy(s, a, ")") ELSE 0

\* \(\s*De vergadering wordt om.*?<word>\.\)
Adjourned(s, i, word) ==
    LET a == AfterLit(s, i, "(")
        b == AfterLit(s, Skip(s, a, Whitespace), "De vergadering wordt om")
    IN IF a > 0 /\ b > 0 THEN DotLazy(s, b, word \o ".)") ELSE 0

M_suspended(s, i) == Adjourned(s, i, "geschorst")
M_resumed(s, i) == Adjourned(s, i, "hervat")

\* Volgens de “catch the eye”-procedure wordt het woord gevoerd door.*?\.
M_catch(s, i) ==
    LET a == AfterLit(s, i, "Volgens de " \o LDQ \o "catch the eye" \o RDQ
                            \o "-procedure wordt het woord gevoerd door")
    IN IF a > 0 THEN DotLazy(s, a, ".") ELSE 0

\* Het woord wordt gevoerd door .*?\.
M_floor(s, i) ==
    LET a == AfterLit(s, i, "Het woord wordt gevoerd door ")
    IN IF a > 0 THEN DotLazy(s, a, ".") ELSE 0

\* an unescaped "." : any one character but a line break
AnyChar(s, j) == IF j >= 1 /\ j <= Len(s) /\ Ch(s, j) # "\n" THEN j + 1 ELSE 0

\* De vergadering wordt om \d{1,2}\.\d{2} uur <word>.
Timed(s, i, word) ==
    LET a == AfterLit(s, i, "De vergadering wordt om ")
        h == FirstMatch(<<AfterLit(s, Exactly(s, a, DigitSet, 2), "."),
                          AfterLit(s, Exactly(s, a, DigitSet, 1), ".")>>)
        m == Exactly(s, h, DigitSet, 2)
        u == AfterLit(s, m, " uur " \o word)
    IN IF a = 0 \/ h = 0 \/ m = 0 \/ u = 0 THEN 0 ELSE AnyChar(s, u)

M_closed_at(s, i) == Timed(s, i, "gesloten")
M_opened_at(s, i) == Timed(s, i, "geopend")

\* Het debat wordt gesloten.
M_debate_closed(s, i) ==
    LET a == AfterLit(s, i, "Het debat wordt gesloten")
    IN IF a > 0 THEN AnyChar(s, a) ELSE 0

\* Stemming:.*?\.
M_vote(s, i) ==
    LET a == AfterLit(s, i, "Stemming:")
    IN IF a > 0 THEN DotLazy(s, a, ".") ELSE 0

\* \s{2,}
M_ws2(s, i) == LET e == Skip(s, i, Whitespace) IN IF e >= i + 2 THEN e ELSE 0

\* where the match of the pattern of the k-th statement of clean_text at
\* position i of s ends, or 0
MatchAt(k, s, i) ==
    CASE k = 1 -> M_tag(s, i)
      [] k = 2 -> M_ws(s, i)
      [] k = 3 -> M_sitting(s, i)
      [] k = 4 -> M_voting(s, i)
      [] k = 5 -> M_tagword(s, i)
      [] k = 6 -> M_speaker(s, i)
      [] k = 7 -> M_article(s, i)
      [] k = 8 -> M_report(s, i)
      [] k = 9 -> M_url(s, i)
      [] k = 10 -> M_cod(s, i)
      [] k = 11 -> M_ini(s, i)
      [] k = 12 -> M_rsp(s, i)
      [] k = 13 -> M_imm(s, i)
      [] k = 14 -> M_nle(s, i)
      [] k = 15 -> M_nle_long(s, i)
      [] k = 16 -> M_results(s, i)
      [] k = 17 -> M_chair(s, i)
      [] k = 18 -> M_annex(s, i)
      [] k = 19 -> M_suspended(s, i)
      [] k = 20 -> M_resumed(s, i)
      [] k = 21 -> M_catch(s, i)
      [] k = 22 -> M_floor(s, i)
      [] k = 23 -> M_closed_at(s, i)
      [] k = 24 -> M_opened_at(s, i)
      [] k = 25 -> M_debate_closed(s, i)
      [] k = 26 -> M_vote(s, i)
      [] k = 27 -> M_ws2(s, i)

\* re.sub(pattern, repl, s), where ends[k] is the position after the match
\* of the pattern at position k of s, or 0: the leftmost match, then the
\* leftmost one at or after its end, and so on; cand holds the positions
\* from i on where the pattern matches
RECURSIVE Splice(_, _, _, _, _)
Splice(ends, repl, s, i, cand) ==
    IF cand = {} THEN SubSeq(s, i, Len(s))
    ELSE (CHOOSE result \in { SubSeq(s, i, Min(cand) - 1) \o repl
                    \o (CHOOSE tail \in { Splice(ends, repl, s, e, rest) :
                                  rest \in {{c \in cand : c >= e}} } : TRUE) :
                e \in {ends[Min(cand)]} } : TRUE)

re_sub(ends, repl, s) ==
    (CHOOSE result \in { Splice(ends, repl, s, 1, cand) :
              cand \in {{k \in 1..Len(s) : ends[k] > k}} } : TRUE)

\* the k-th statement of clean_text, applied to t: the second and the last
\* put a blank for each match and strip, the others delete the matches
Rule(k, t) ==
    LET ends == [i \in 1..Len(t) |-> MatchAt(k, t, i)]
    IN IF k \in {2, 27} THEN strip(re_sub(ends, " ", t))
       ELSE re_sub(ends, "", t)

\* statements lo to hi of clean_text, in order, applied to t
RECURSIVE Rules(_, _, _)
Rules(lo, hi, t) ==
    IF lo = hi THEN Rule(lo, t)
    ELSE LET mid == (lo + hi) \div 2
         IN (CHOOSE result \in { Rules(mid + 1, hi, r) : r \in {Rules(lo, mid, t)} } : TRUE)

clean_text(raw) == (CHOOSE result \in { Rules(1, 27, t) : t \in {raw} } : TRUE)

----------------------------------------------------------------------------
(* Values.  A Python "str | None" is a record: None, or Some(text).        *)

None == [some |-> FALSE, val |-> ""]
Some(t) == [some |-> TRUE, val |-> t]

\* sep.join(parts)
RECURSIVE Join(_, _)
Join(parts, sep) ==
    IF parts = <<>> THEN ""
    ELSE IF Len(parts) = 1 THEN parts[1]
    ELSE parts[1] \o sep \o Join(Tail(parts), sep)

\* s.replace(old, new)
Replace(s, old, new) ==
    re_sub([i \in 1..Len(s) |-> AfterLit(s, i, old)], new, s)

\* s.endswith(suffix)
EndsWith(s, suffix) == LitAt(s, Len(s) - Len(suffix) + 1, suffix)

\* the concatenation of a sequence of sequences
RECURSIVE Flatten(_)
Flatten(seqs) == IF seqs = <<>> THEN <<>> ELSE Head(seqs) \o Flatten(Tail(seqs))

\* the minimum length below which an extraction is rejected
MIN_LENGTH == 50

\* a document body as its parser sees it: kind "xml" (nodes: the elements in
\* document order, each with its name, the names of its ancestors, its
\* string() value, its language attribute, and the string() value of its
\* Orator.List.Text and the presence of its Attendance.Participant.Name
\* children), "html" (ps: the <p> elements, each the sequence of its text
\* nodes), "toc" (anchors: the <a> elements of a pagination page), or "bad"
\* (bytes no parser recovers a tree from)
Body(kind, nodes, ps, anchors) ==
    [kind |-> kind, nodes |-> nodes, ps |-> ps, anchors |-> anchors]

Node(name, ancestors, string, lang, hasOrator, orator, hasParticipant) ==
    [name |-> name, ancestors |-> ancestors, text |-> string, lang |-> lang,
     hasOrator |-> hasOrator, orator |-> orator, hasParticipant |-> hasParticipant]

----------------------------------------------------------------------------
(* extract_dutch_text_from_xml                                             *)

relevant_sections ==
    << "PV.Other.Text", "PV.Debate.Text", "PV.Vote.Text",
       "PV.Sitting.Resumption.Text", "PV.Approval.Text", "PV.Agenda.Text",
       "PV.Sitting.Closure.Text" >>

\* re.search(r"[a-zA-Z]{5,}", s)
HasLetterRun(s) == \E k \in 1..Len(s) : Exactly(s, k, LetterSet, 5) > 0

\* the body of the loop over the paragraphs of one section: whether p_tag's
\* text is appended to dutch_texts
KeepParagraph(p_tag) ==
    LET text_content == strip(p_tag.text)
        name_list_text == strip(p_tag.orator)
    IN /\ text_content # ""
       /\ "table:table" \notin p_tag.ancestors
       /\ ~ ( /\ p_tag.hasOrator \/ p_tag.hasParticipant
              /\ Len(text_content) < 100
              /\ name_list_text # ""
              /\ name_list_text = text_content )
       /\ ~ (Len(text_content) < 20 /\ ~HasLetterRun(text_content))

\* //section//text:p, in document order
SectionParagraphs(nodes, section) ==
    SelectSeq(nodes, LAMBDA n : n.name = "text:p" /\ section \in n.ancestors)

\* the texts one section appends to dutch_texts
SectionTexts(nodes, section) ==
    LET kept == SelectSeq(SectionParagraphs(nodes, section), KeepParagraph)
    IN [k \in 1..Len(kept) |-> strip(kept[k].text)]

\* dutch_texts after the loop over relevant_sections
DutchTexts(nodes) ==
    Flatten([k \in 1..Len(relevant_sections) |->
                SectionTexts(nodes, relevant_sections[k])])

\* the extractor without its length threshold
extract_xml_any_length(xml_content) ==
    IF xml_content.kind = "bad" THEN None
    ELSE (CHOOSE result \in { IF final_text # "" THEN Some(final_text) ELSE None :
                   final_text \in
                       {clean_text(Join(DutchTexts(xml_content.nodes), "\n"))} } : TRUE)

\* the extractor taking the text of every node when no section gave any
extract_xml_whole_document(xml_content) ==
    IF xml_content.kind = "bad" THEN None
    ELSE LET section_texts == DutchTexts(xml_content.nodes)
             every_text == [k \in 1..Len(xml_content.nodes) |->
                               xml_content.nodes[k].text]
         IN (CHOOSE result \in { IF final_text # "" /\ Len(final_text) > MIN_LENGTH
                   THEN Some(final_text) ELSE None :
                      final_text \in
                          {clean_text(Join(IF section_texts = <<>> THEN every_text
                                           ELSE section_texts, "\n"))} } : TRUE)

extract_dutch_text_from_xml(xml_content) ==
    IF xml_content.kind = "bad" THEN None
    ELSE (CHOOSE result \in { IF final_text # "" /\ Len(final_text) > MIN_LENGTH
                THEN Some(final_text) ELSE None :
                   final_text \in
                       {clean_text(Join(DutchTexts(xml_content.nodes), "\n"))} } : TRUE)

----------------------------------------------------------------------------
(* extract_dutch_text_from_html                                            *)

\* the stripped, non-empty strings of an element
StrippedStrings(p) ==
    LET stripped == [k \in 1..Len(p) |-> strip(p[k])]
    IN SelectSeq(stripped, LAMBDA t : t # "")

\* p.get_text(sep, strip=True)
get_text(p, sep) == Join(StrippedStrings(p), sep)

\* the HTML extractor accepting a text of MIN_LENGTH characters
extract_html_at_least(html_content) ==
    LET kept == SelectSeq(html_content.ps, LAMBDA p : get_text(p, "") # "")
        paragraphs == [k \in 1..Len(kept) |-> get_text(kept[k], " ")]
    IN (CHOOSE result \in { IF final_text # "" /\ Len(final_text) >= MIN_LENGTH
              THEN Some(final_text) ELSE None :
                 final_text \in {clean_text(Join(paragraphs, "\n"))} } : TRUE)

extract_dutch_text_from_html(html_content) ==
    LET kept == SelectSeq(html_content.ps, LAMBDA p : get_text(p, "") # "")
        paragraphs == [k \in 1..Len(kept) |-> get_text(kept[k], " ")]
    IN (CHOOSE result \in { IF final_text # "" /\ Len(final_text) > MIN_LENGTH
              THEN Some(final_text) ELSE None :
                 final_text \in {clean_text(Join(paragraphs, "\n"))} } : TRUE)

----------------------------------------------------------------------------
(* The site: what the server answers to a GET of each URL.                 *)

\* the number of pagination pages of the site
MaxPages == 2

START_TOC_URL ==
    "https://www.europarl.europa.eu/doceo/document/PV-5-2003-05-12-TOC_NL.html"

BaseDir == "https://www.europarl.europa.eu/doceo/document/"

\* the sittings are numbered from the one START_TOC_URL names
Sitting(n) == "PV-5-2003-05-" \o ToString(11 + n)

PageName(n) == Sitting(n) \o "-TOC_NL.html"
PageURL(n) == BaseDir \o PageName(n)
XmlURL(n) == BaseDir \o Sitting(n) \o "_NL.xml"
HtmlURL(n) == BaseDir \o Sitting(n) \o "_NL.html"

\* a pagination page the rewrite rule does not apply to
OtherName == "PV-5-2003-05-12-TOC_EN.html"
OtherURL == BaseDir \o OtherName

Pages == 1..MaxPages

URLs == {PageURL(n) : n \in Pages} \cup {XmlURL(n) : n \in Pages}
            \cup {HtmlURL(n) : n \in Pages} \cup {OtherURL}

Resp(status, body) == [status |-> status, body |-> body]

Anchor(title, string, href) == [title |-> title, string |-> string, href |-> href]

TocBody(anchors) == Body("toc", <<>>, <<>>, anchors)
XmlBody(nodes) == Body("xml", nodes, <<>>, <<>>)
HtmlBody(ps) == Body("html", <<>>, ps, <<>>)
NoBody == Body("bad", <<>>, <<>>, <<>>)

\* the answers a pagination page n may give
PageKinds == <<"chain", "end", "back", "nohref", "other", "error">>

PageAnswer(n, kind) ==
    CASE kind = "chain" ->
            \* a "Volgende" link, relative, to the next sitting (which the
            \* site does not have after the last one)
            Resp(200, TocBody(<<Anchor("Vorige", "<", PageName(n)),
                                Anchor("Volgende", ">", PageName(n + 1))>>))
      [] kind = "end" ->
            \* no next link
            Resp(200, TocBody(<<Anchor("Vorige", "<", PageName(n))>>))
      [] kind = "back" ->
            \* a link found by its text only, absolute, back to the first page
            Resp(200, TocBody(<<Anchor("", "VOLGENDE >>", PageURL(1))>>))
      [] kind = "nohref" ->
            \* a titled anchor without href before a text link
            Resp(200, TocBody(<<Anchor("Volgende", "", ""),
                                Anchor("", "Volgende", PageName(n + 1))>>))
      [] kind = "other" ->
            \* a link to a page of another naming scheme
            Resp(200, TocBody(<<Anchor("Volgende", ">", OtherName)>>))
      [] kind = "error" ->
            \* a server error
            Resp(500, NoBody)

Para(section, string) == Node("text:p", {"PV.Doc", section}, string, "", FALSE, "", FALSE)

\* minutes in the structured dialect, in an order that is not the order of
\* relevant_sections, with a table cell, a list of speakers and a number
GoodXml ==
    XmlBody(<< Para("PV.Vote.Text", "Het verslag wordt aangenomen (artikel 5)."),
               Node("text:p", {"PV.Doc", "PV.Debate.Text", "table:table"},
                    "Deze tabelcel wordt overgeslagen", "", FALSE, "", FALSE),
               Para("PV.Debate.Text", " De Raad beantwoordt vragen. (debat) "),
               Para("PV.Debate.Text", "12."),
               Node("text:p", {"PV.Doc", "PV.Debate.Text"}, "Jansen, De Vries", "",
                    TRUE, "Jansen, De Vries", FALSE) >>)

Text50 == "Begrotingsonderhandelingen worden thans voortgezet"
Text51 == Text50 \o "."

\* minutes that clean to exactly MIN_LENGTH and MIN_LENGTH + 1 characters
Xml50 == XmlBody(<< Para("PV.Debate.Text", Text50 \o " (debat)") >>)
Xml51 == XmlBody(<< Para("PV.Debate.Text", Text51 \o " (debat)") >>)
Html50 == HtmlBody(<< <<"Begrotingsonderhandelingen worden ", " thans voortgezet">>,
                      <<" ">>, <<"(Stemming)">> >>)
Html51 == HtmlBody(<< <<"Begrotingsonderhandelingen worden ", " thans voortgezet.">>,
                      <<" ">>, <<"(Stemming)">> >>)

\* a document with one language-tagged node, outside and inside the
\* sections of the structured dialect
ScenarioText == "  Dit is een   test.  (Stemming: ja) "
ScenarioXmlPlain ==
    XmlBody(<< Node("p", {"doc"}, ScenarioText, "nl", FALSE, "", FALSE) >>)
ScenarioXmlMinutes ==
    XmlBody(<< Node("text:p", {"PV.Doc", "PV.Other.Text"}, ScenarioText, "nl",
                    FALSE, "", FALSE) >>)

\* a document without any language attribute and without the sections of
\* the structured dialect
UntaggedXml ==
    XmlBody(<< Node("title", {"doc"}, "Notulen", "", FALSE, "", FALSE),
               Node("p", {"doc", "body"},
                    "Landbouwbeleid: het Parlement keurt de ontwerpresolutie goed",
                    "", FALSE, "", FALSE) >>)

\* the answers the two formats of an item may give: <<xml, html>>
ItemKinds ==
    << "good", "xml50", "xml51", "xml500", "html51", "html50", "html503",
       "garbled", "scenario", "scenario_pv", "untagged" >>

ItemAnswer(kind) ==
    CASE kind = "good" -> <<Resp(200, GoodXml), Resp(404, NoBody)>>
      [] kind = "xml50" -> <<Resp(200, Xml50), Resp(200, Html51)>>
      [] kind = "xml51" -> <<Resp(200, Xml51), Resp(404, NoBody)>>
      [] kind = "xml500" -> <<Resp(500, NoBody), Resp(200, Html51)>>
      [] kind = "html51" -> <<Resp(404, NoBody), Resp(200, Html51)>>
      [] kind = "html50" -> <<Resp(404, NoBody), Resp(200, Html50)>>
      [] kind = "html503" -> <<Resp(404, NoBody), Resp(503, NoBody)>>
      [] kind = "garbled" -> <<Resp(200, NoBody), Resp(404, NoBody)>>
      [] kind = "scenario" -> <<Resp(200, ScenarioXmlPlain), Resp(404, NoBody)>>
      [] kind = "scenario_pv" -> <<Resp(200, ScenarioXmlMinutes), Resp(404, NoBody)>>
      [] kind = "untagged" -> <<Resp(200, UntaggedXml), Resp(404, NoBody)>>

Range(seq) == {seq[k] : k \in 1..Len(seq)}

\* a site: for each sitting, the kind of its page and the kind of its item.
\* Either a chain of len pages that ends, with any items on it, or any
\* pages, with well-formed items.
ChainSite(len, items) ==
    [n \in Pages |-> << IF n < len THEN "chain" ELSE "end",
                        IF n <= len THEN items[n] ELSE "good" >>]

Sites ==
    {ChainSite(len, items) :
        len \in Pages, items \in [Pages -> Range(ItemKinds)]}
    \cup {[n \in Pages |-> <<pages[n], "good">>] :
              pages \in [Pages -> Range(PageKinds)]}

\* the sitting a URL of the site belongs to
SittingOf(u) == CHOOSE n \in Pages : u \in {PageURL(n), XmlURL(n), HtmlURL(n)}

\* the responses of a site
WebOf(g) ==
    [u \in URLs |->
        IF u = OtherURL THEN Resp(200, TocBody(<<>>))
        ELSE LET n == SittingOf(u)
             IN IF u = PageURL(n) THEN PageAnswer(n, g[n][1])
                ELSE IF u = XmlURL(n) THEN ItemAnswer(g[n][2])[1]
                ELSE ItemAnswer(g[n][2])[2]]

Webs == {WebOf(g) : g \in Sites}

----------------------------------------------------------------------------
(* The program.                                                            *)

VARIABLES
    web,        \* the site: URL -> response
    pc,         \* "collect", "scrape", "done"; "raised": scrape() left by an exception
    current,    \* collect_minutes_urls: current
    visited,    \* collect_minutes_urls: visited
    urls,       \* collect_minutes_urls: urls
    toc_urls,   \* scrape: toc_urls
    idx,        \* scrape: the position of the for loop in toc_urls
    text,       \* scrape: text, as last assigned
    failed,     \* scrape: the URLs reported by "Failed to scrape"
    data,       \* scrape: data
    gets,       \* every session.get issued so far: who called, and the URL
    cl_pc,      \* the cleaner alone: "input", "once", "twice"
    cl_text,    \*   its input
    cl_once,    \*   clean_text(input)
    cl_twice    \*   clean_text(clean_text(input))

vars == << web, pc, current, visited, urls, toc_urls, idx, text, failed, data,
           gets, cl_pc, cl_text, cl_once, cl_twice >>

crawlVars == << current, visited, urls >>
scrapeVars == << toc_urls, idx, text, failed, data >>
cleanVars == << cl_pc, cl_text, cl_once, cl_twice >>

\* session.get(url): an unknown URL is not found
Get(url) == IF url \in DOMAIN web THEN web[url] ELSE Resp(404, NoBody)

\* resp.raise_for_status() raises
IsError(status) == status >= 400 /\ status < 600

\* re.compile("Volgende", re.I) found in string
HasVolgende(string) == \E k \in 1..Len(string) : LitAtI(string, k, "volgende")

\* soup.find("a", title="Volgende"), else soup.find("a", string=...); <<>>
\* when there is none
FindNext(anchors) ==
    LET titled == SelectSeq(anchors, LAMBDA a : a.title = "Volgende")
        worded == SelectSeq(anchors, LAMBDA a : HasVolgende(a.string))
    IN IF titled # <<>> THEN <<Head(titled)>>
       ELSE IF worded # <<>> THEN <<Head(worded)>>
       ELSE <<>>

\* urljoin(base, href) for an absolute href and for a relative file name
urljoin(base, href) ==
    IF LitAt(href, 1, "http://") \/ LitAt(href, 1, "https://") THEN href
    ELSE SubSeq(base, 1, Max({k \in 1..Len(base) : Ch(base, k) = "/"})) \o href

\* current.replace("-TOC_NL.html", "_NL.xml")
minutes_url(page) == Replace(page, "-TOC_NL.html", "_NL.xml")

\* the loop condition without its visited check
LoopConditionNoVisited == current # ""

\* while current and current not in visited
LoopCondition == current # "" /\ current \notin visited

\* visited left as it was
MarkVisitedNot(seen, url) == seen

\* visited.add(current)
MarkVisited(seen, url) == seen \cup {url}

\* the loop runs once per URL at most; this bounds the search when it does not
MaxIterations == Cardinality(URLs) + 1

\* one iteration of the loop of collect_minutes_urls; a failed fetch raises
\* out of collect_minutes_urls and out of scrape, which calls it outside its
\* try; a break returns urls to scrape
CollectStep ==
    /\ pc = "collect"
    /\ LoopCondition
    /\ Len(urls) < MaxIterations
    /\ LET resp == Get(current)
           next_link == FindNext(resp.body.anchors)
       IN /\ visited' = MarkVisited(visited, current)
          /\ gets' = Append(gets, [by |-> "collect", url |-> current])
          /\ IF IsError(resp.status)
             THEN /\ pc' = "raised"
                  /\ UNCHANGED << current, urls, toc_urls >>
             ELSE /\ urls' = Append(urls, minutes_url(current))
                  /\ IF next_link = <<>> \/ next_link[1].href = ""
                     THEN /\ pc' = "scrape"
                          /\ toc_urls' = urls'
                          /\ current' = current
                     ELSE /\ pc' = pc
                          /\ toc_urls' = toc_urls
                          /\ current' = urljoin(current, next_link[1].href)
    /\ UNCHANGED << web, idx, text, failed, data, cleanVars >>

\* the loop condition fails: return urls
CollectReturn ==
    /\ pc = "collect"
    /\ ~LoopCondition
    /\ pc' = "scrape"
    /\ toc_urls' = urls
    /\ UNCHANGED << web, crawlVars, idx, text, failed, data, gets, cleanVars >>

\* fetch_minutes_text(url, session): the GETs it issues, whether it raises,
\* and what it returns when it does not
\* every document a site of Webs serves
Documents ==
    {NoBody} \cup UNION {{w[u].body : u \in DOMAIN w} : w \in Webs}

\* the two extractors on each of these documents, worked out once
Extractions ==
    {[doc |-> d,
      xml |-> extract_dutch_text_from_xml(d),
      html |-> extract_dutch_text_from_html(d)] : d \in Documents}

XmlText(d) == (CHOOSE e \in Extractions : e.doc = d).xml
HtmlText(d) == (CHOOSE e \in Extractions : e.doc = d).html

\* the fetcher without the retry
fetch_without_fallback(url) ==
    LET resp == Get(url)
        first == <<[by |-> "fetch", url |-> url]>>
    IN IF IsError(resp.status)
       THEN [gets |-> first, raised |-> TRUE, text |-> None]
       ELSE [gets |-> first, raised |-> FALSE, text |-> XmlText(resp.body)]

fetch_minutes_text(url) ==
    LET resp == Get(url)
        html_url == Replace(url, "_NL.xml", "_NL.html")
        resp2 == Get(html_url)
        first == <<[by |-> "fetch", url |-> url]>>
        both == Append(first, [by |-> "fallback", url |-> html_url])
    IN IF resp.status = 404 /\ EndsWith(url, "_NL.xml")
       THEN IF IsError(resp2.status)
            THEN [gets |-> both, raised |-> TRUE, text |-> None]
            ELSE [gets |-> both, raised |-> FALSE,
                  text |-> HtmlText(resp2.body)]
       ELSE IF IsError(resp.status)
            THEN [gets |-> first, raised |-> TRUE, text |-> None]
            ELSE [gets |-> first, raised |-> FALSE,
                  text |-> XmlText(resp.body)]

\* the record put in front of the others
PrependRecord(records, url, t) ==
    <<[URL |-> url, text |-> t, source |-> "European Parliament Minutes"]>> \o records

\* data.append({"URL": url, "text": text, "source": ...})
AppendRecord(records, url, t) ==
    Append(records, [URL |-> url, text |-> t, source |-> "European Parliament Minutes"])

\* the exception reported, and the loop left
OnExceptionAbort(url) ==
    /\ failed' = Append(failed, url)
    /\ pc' = "raised"
    /\ UNCHANGED << idx, text, data >>

\* the except clause of the loop of scrape: report, and go on
OnException(url) ==
    /\ failed' = Append(failed, url)
    /\ pc' = pc
    /\ idx' = idx + 1
    /\ UNCHANGED << text, data >>

\* one iteration of the for loop of scrape
ScrapeItem ==
    /\ pc = "scrape"
    /\ idx <= Len(toc_urls)
    /\ \E call \in {fetch_minutes_text(toc_urls[idx])} :
          LET url == toc_urls[idx]
          IN
          /\ gets' = gets \o call.gets
          /\ IF call.raised
             THEN OnException(url)
             ELSE /\ text' = call.text
                  /\ data' = IF call.text.some /\ call.text.val # ""
                             THEN AppendRecord(data, url, call.text.val)
                             ELSE data
                  /\ idx' = idx + 1
                  /\ UNCHANGED << pc, failed >>
    /\ UNCHANGED << web, crawlVars, toc_urls, cleanVars >>

\* the for loop is over: return data
ScrapeReturn ==
    /\ pc = "scrape"
    /\ idx > Len(toc_urls)
    /\ pc' = "done"
    /\ UNCHANGED << web, crawlVars, scrapeVars, gets, cleanVars >>

Init ==
    /\ web \in Webs
    /\ pc = "collect"
    /\ current = START_TOC_URL
    /\ visited = {}
    /\ urls = <<>>
    /\ toc_urls = <<>>
    /\ idx = 1
    /\ text = None
    /\ failed = <<>>
    /\ data = <<>>
    /\ gets = <<>>
    /\ cl_pc = "off"
    /\ cl_text = ""
    /\ cl_once = ""
    /\ cl_twice = ""

Next == CollectStep \/ CollectReturn \/ ScrapeItem \/ ScrapeReturn

Spec == Init /\ [][Next]_vars

\* the program runs on: no step waits for anything but a response, and
\* every fetch returns
FairSpec == Spec /\ WF_vars(Next)

----------------------------------------------------------------------------
(* The cleaner alone, on inputs put together from a few fragments.         *)

\* the number of fragments an input is made of, at most
MaxFrags == 3

Fragments == <<"(", "debat)", "(debat)", " ", "Stemming: ja.", "<b>", "a">>

CleanInputs ==
    {Join(f, "") : f \in UNION {[1..k -> Range(Fragments)] : k \in 1..MaxFrags}}

CleanInit ==
    /\ cl_pc = "input"
    /\ cl_text \in CleanInputs
    /\ cl_once = ""
    /\ cl_twice = ""
    /\ web = <<>>
    /\ pc = "off"
    /\ current = ""
    /\ visited = {}
    /\ urls = <<>>
    /\ toc_urls = <<>>
    /\ idx = 1
    /\ text = None
    /\ failed = <<>>
    /\ data = <<>>
    /\ gets = <<>>

\* text = clean_text(text)
CleanOnce ==
    /\ cl_pc = "input"
    /\ cl_once' = clean_text(cl_text)
    /\ cl_pc' = "once"
    /\ UNCHANGED << web, pc, crawlVars, scrapeVars, gets, cl_text, cl_twice >>

\* and once more, on its own output
CleanTwice ==
    /\ cl_pc = "once"
    /\ cl_twice' = clean_text(cl_once)
    /\ cl_pc' = "twice"
    /\ UNCHANGED << web, pc, crawlVars, scrapeVars, gets, cl_text, cl_once >>

CleanNext == CleanOnce \/ CleanTwice

CleanSpec == CleanInit /\ [][CleanNext]_vars

----------------------------------------------------------------------------
(* What the claims speak about.                                            *)

\* the URLs of the GETs made by one part of the program, in order
GetsBy(who) ==
    LET mine == SelectSeq(gets, LAMBDA g : g.by = who)
    IN [k \in 1..Len(mine) |-> mine[k].url]

CollectGets == GetsBy("collect")

NoDuplicates(seq) ==
    \A i, j \in 1..Len(seq) : i # j => seq[i] # seq[j]

\* the document URL of a pagination page, written down from the site
DocumentOf(page) ==
    IF \E n \in 1..(MaxPages + 1) : page = PageURL(n)
    THEN XmlURL(CHOOSE n \in 1..(MaxPages + 1) : page = PageURL(n))
    ELSE page

Delivered == pc \in {"scrape", "done"}

\* C1: the crawl always terminates: whatever the link structure of the site,
\* cyclic or not, collect_minutes_urls leaves its loop.
C1_CrawlTerminates == <>(pc # "collect")

\* the crawl was led back to the first page by the second, and ended
C1_Witness ==
    /\ pc = "scrape"
    /\ Len(toc_urls) = 2
    /\ current = START_TOC_URL

\* C2: no pagination page is fetched twice and none has its document URL
\* appended twice: the crawl follows a simple path, with one entry per
\* distinct page visited and none after a page is met again.
C2_SimplePath ==
    /\ NoDuplicates(CollectGets)
    /\ visited = Range(CollectGets)
    /\ NoDuplicates(urls)
    /\ Len(urls) <= Len(CollectGets)
    /\ \A k \in 1..Len(urls) : urls[k] = DocumentOf(CollectGets[k])
    /\ Delivered => /\ toc_urls = urls
                    /\ Len(toc_urls) = Len(CollectGets)

\* the crawl stands before a page it has already visited
C2_Witness ==
    /\ pc = "collect"
    /\ current \in visited
    /\ Len(urls) = 2

\* C3: when the fetch of a pagination page fails after earlier pages were
\* collected, the crawl returns the entries collected so far.
C3_PartialResultReturned ==
    (/\ Len(urls) >= 1
     /\ \E k \in 1..Len(CollectGets) : IsError(Get(CollectGets[k]).status))
    => /\ Delivered
       /\ toc_urls = urls

\* the item scrape has just dealt with
Attempted == Delivered /\ idx > 1
LastURL == toc_urls[idx - 1]

\* the GETs of the last call of fetch_minutes_text
LastCall ==
    LET from == Max({k \in 1..Len(gets) : gets[k].by = "fetch"})
    IN SubSeq(gets, from, Len(gets))

\* the last call raised: scrape logged its URL
LastRaised == failed # <<>> /\ failed[Len(failed)] = LastURL

\* the HTML rendition of an item, written down from the site
HtmlOf(url) ==
    IF \E n \in Pages : url = XmlURL(n)
    THEN HtmlURL(CHOOSE n \in Pages : url = XmlURL(n))
    ELSE url

OneGet == Len(LastCall) = 1 /\ LastCall[1].url = LastURL

TwoGets ==
    /\ Len(LastCall) = 2
    /\ LastCall[1].url = LastURL
    /\ LastCall[2].url = HtmlOf(LastURL)
    /\ LastCall[2].url # LastURL

\* C4 as the specification states it: a 404 on the primary URL leads to one
\* more request, for the HTML URL, whose extraction is returned; any other
\* error raises without a retry.
C4_FallbackReturnsExtraction ==
    Attempted =>
        LET status == Get(LastURL).status
        IN /\ status = 404 =>
                  /\ TwoGets
                  /\ ~LastRaised
                  /\ text = extract_dutch_text_from_html(Get(HtmlOf(LastURL)).body)
           /\ (IsError(status) /\ status # 404) => (OneGet /\ LastRaised)

\* C4: a 404 on a primary URL that ends in _NL.xml leads to exactly one more
\* request, for the _NL.html URL; the extraction of that response is returned
\* when its status is no error, and the call raises when it is; any other
\* error on the primary URL raises without a retry.
C4_Fallback ==
    Attempted =>
        LET status == Get(LastURL).status
            second == Get(HtmlOf(LastURL))
        IN /\ (status = 404 /\ EndsWith(LastURL, "_NL.xml")) =>
                  /\ TwoGets
                  /\ LastRaised <=> IsError(second.status)
                  /\ ~LastRaised =>
                         text = extract_dutch_text_from_html(second.body)
           /\ (IsError(status) /\ ~(status = 404 /\ EndsWith(LastURL, "_NL.xml")))
                  => (OneGet /\ LastRaised)
           /\ ~IsError(status) => (OneGet /\ ~LastRaised)

\* a 404 answered by the HTML rendition, whose text was extracted
C4_Witness ==
    /\ Attempted
    /\ Get(LastURL).status = 404
    /\ TwoGets
    /\ ~LastRaised
    /\ text.some

\* C5: the failure of one item never ends the run: scrape goes on to the end
\* of the list and returns, every item attempted once and in order, and no
\* record gathered before a failure is lost.
C5_FailuresIsolated ==
    /\ [][\A k \in 1..Len(data) : k <= Len(data') /\ data'[k] = data[k]]_vars
    /\ (pc = "scrape") ~> (pc = "done" /\ GetsBy("fetch") = toc_urls)

\* the first item failed, the one after it was stored, and scrape returned
C5_Witness ==
    /\ pc = "done"
    /\ Len(toc_urls) = 2
    /\ failed = <<toc_urls[1]>>
    /\ Len(data) = 1
    /\ data[1].URL = toc_urls[2]

\* a is b with some entries left out
RECURSIVE IsSubsequence(_, _)
IsSubsequence(a, b) ==
    IF a = <<>> THEN TRUE
    ELSE IF b = <<>> THEN FALSE
    ELSE IF Head(a) = Head(b) THEN IsSubsequence(Tail(a), Tail(b))
    ELSE IsSubsequence(a, Tail(b))

RecordURLs == [k \in 1..Len(data) |-> data[k].URL]

\* C6: the records come in the order the crawl discovered the documents: their
\* URLs are the discovered sequence with the failed and empty items left out.
C6_DiscoveryOrder ==
    Delivered =>
        /\ \A k \in 1..Len(toc_urls) : toc_urls[k] = DocumentOf(CollectGets[k])
        /\ IsSubsequence(RecordURLs, SubSeq(toc_urls, 1, idx - 1))
        /\ \A k \in 1..Len(data) : data[k].URL \notin Range(failed)

\* two documents, both stored
C6_Witness ==
    /\ pc = "done"
    /\ Len(data) = 2
    /\ data[1].URL = XmlURL(1)
    /\ data[2].URL = XmlURL(2)

\* C7: the text of every record is longer than MIN_LENGTH characters; on the
\* XML path and on the HTML path a cleaned text of exactly 50 characters is
\* rejected and one of 51 is accepted.
C7_MinimumLength ==
    /\ \A k \in 1..Len(data) : Len(data[k].text) > MIN_LENGTH
    /\ Attempted =>
          LET first == Get(LastURL)
              second == Get(HtmlOf(LastURL))
              stored == data # <<>> /\ data[Len(data)].URL = LastURL
          IN /\ first = Resp(200, Xml50) => (text = None /\ ~stored)
             /\ first = Resp(200, Xml51) =>
                    (text = Some(Text51) /\ stored /\ data[Len(data)].text = Text51)
             /\ (first.status = 404 /\ second = Resp(200, Html50)) =>
                    (text = None /\ ~stored)
             /\ (first.status = 404 /\ second = Resp(200, Html51)) =>
                    (text = Some(Text51) /\ stored /\ data[Len(data)].text = Text51)

\* a text of 51 characters was stored from XML and one of 50 dropped from HTML
C7_Witness ==
    /\ pc = "done"
    /\ Len(toc_urls) = 2
    /\ Get(toc_urls[1]) = Resp(200, Xml51)
    /\ Get(toc_urls[2]).status = 404
    /\ Get(HtmlOf(toc_urls[2])) = Resp(200, Html50)
    /\ Len(data) = 1
    /\ Len(data[1].text) = MIN_LENGTH + 1

\* C8 as the specification states it: clean_text is idempotent, a second
\* pass over its own output changes nothing.
C8_Idempotent == cl_pc = "twice" => cl_twice = cl_once

\* the site of the end-to-end scenario: page A leads to page B, which has no
\* next link, and both documents hold the one language-tagged node
IsScenario ==
    /\ pc # "off"
    /\ web[PageURL(1)] = PageAnswer(1, "chain")
    /\ web[PageURL(2)] = PageAnswer(2, "end")
    /\ \A n \in 1..2 :
          /\ web[XmlURL(n)].status = 200
          /\ web[XmlURL(n)].body \in {ScenarioXmlPlain, ScenarioXmlMinutes}

ScenarioRecord(n) ==
    [URL |-> XmlURL(n), text |-> "Dit is een test.",
     source |-> "European Parliament Minutes"]

\* C9 as the specification states it: the scenario returns the two records
\* [A, B], each with the text "Dit is een test." and the fixed source label.
C9_TwoRecords ==
    (IsScenario /\ pc = "done") => data = <<ScenarioRecord(1), ScenarioRecord(2)>>

\* C9: in the scenario the crawl discovers the documents of A and B in this
\* order and both are fetched once without an error, but the run returns no
\* record: the text cleans to "Dit is een test. (Stemming: ja)", which is not
\* longer than MIN_LENGTH.
C9_NoRecords ==
    (IsScenario /\ pc = "done") =>
        /\ toc_urls = <<XmlURL(1), XmlURL(2)>>
        /\ GetsBy("fetch") = toc_urls
        /\ GetsBy("fallback") = <<>>
        /\ failed = <<>>
        /\ clean_text(ScenarioText) = "Dit is een test. (Stemming: ja)"
        /\ data = <<>>

\* the scenario has run to its end, with the node inside a section of the
\* minutes in both documents
C9_Witness ==
    /\ IsScenario
    /\ pc = "done"
    /\ web[XmlURL(1)].body = ScenarioXmlMinutes
    /\ web[XmlURL(2)].body = ScenarioXmlMinutes

\* the document the last item answered with, fetched with success as XML
LastDocument == Get(LastURL).body

ParsedXml ==
    /\ Attempted
    /\ Get(LastURL).status = 200
    /\ LastDocument.kind = "xml"

NoLanguageAttribute(doc) == \A k \in 1..Len(doc.nodes) : doc.nodes[k].lang = ""

\* the text of every node, in document order
WholeText(doc) == Join([k \in 1..Len(doc.nodes) |-> doc.nodes[k].text], "\n")

InRelevantSection(n) ==
    n.name = "text:p" /\ n.ancestors \cap Range(relevant_sections) # {}

============================================================================
